---------------------------- MODULE Spec2Model ----------------------------
(***************************************************************************)
(* SnowflakeList (discord/utils.py): an array.array of typecode "Q" kept   *)
(* in ascending order by bisect_left insertion.  The model holds one       *)
(* container, the is_sorted flag it was constructed with, and the last     *)
(* call made on it: its argument, its return value and the exception it    *)
(* raised.                                                                 *)
(*                                                                         *)
(* The module-level helpers of the same file (as_chunks, find, get,        *)
(* get_or_fetch, filter_params) are modelled as calls: fn names the        *)
(* helper, args holds its arguments, pc its progress and result what it    *)
(* returned or raised.  Each helper has its own specification; the         *)
(* variables of the parts a specification does not exercise stay at their  *)
(* idle values.                                                            *)
(***************************************************************************)
EXTENDS Integers, Sequences, FiniteSets

(* ------------------------------ bounds -------------------------------- *)

\* Largest value an item of the array can hold.  The source's typecode "Q"
\* gives 2^64 - 1; the model scales the width down and keeps the range
\* check, the only place the width acts (nothing wraps, the array raises).
MaxValue == 3

\* Longest iterable handed to the constructor.
MaxInput == 3

\* add is not called once the container holds this many items.
MaxLen == 5

\* Longest iterator handed to as_chunks.
MaxIter == 4

\* Largest max_size handed to as_chunks.
MaxChunk == 3

\* Longest sequence handed to find and to get.
MaxSeq == 3

\* Most keyword arguments handed to filter_params.
MaxKw == 2

\* Integers the model passes as items or arguments: every storable value,
\* one negative integer and one integer too big for the typecode.
Values == (0 - 1) .. (MaxValue + 1)

\* Iterables handed to the constructor.
Inputs == UNION {[1..n -> Values] : n \in 0..MaxInput}

(* --------------------------- pure functions --------------------------- *)

\* Python's None, as returned by get; no integer of Values.
None == 0 - 2

NoExc == "NoExc"

\* None where an object or an integer may stand: what find and get return
\* for no match, and a slice bound that is left out.
Nothing == [none |-> TRUE]

\* An object or integer x where None may stand.
Some(x) == [none |-> FALSE, ret |-> x]

\* array typecode "q" (signed): the range a wrong typecode would accept.
FitsSignedQ(x) == (0 - ((MaxValue + 1) \div 2)) <= x /\ x <= (MaxValue \div 2)

\* array typecode "Q": an item must be an unsigned integer of the item
\* width, otherwise array raises OverflowError.
FitsQ(x) == 0 <= x /\ x <= MaxValue

RECURSIVE bisect_right_loop(_, _, _, _)
bisect_right_loop(a, x, lo, hi) ==
    IF lo < hi
    THEN LET mid == (lo + hi) \div 2
         IN IF x < a[mid + 1]
            THEN bisect_right_loop(a, x, lo, mid)
            ELSE bisect_right_loop(a, x, mid + 1, hi)
    ELSE lo

\* bisect.bisect_right: the insertion point after any equal items.
bisect_right(a, x) == bisect_right_loop(a, x, 0, Len(a))

RECURSIVE bisect_left_loop(_, _, _, _)
bisect_left_loop(a, x, lo, hi) ==
    IF lo < hi
    THEN LET mid == (lo + hi) \div 2
         IN IF a[mid + 1] < x
            THEN bisect_left_loop(a, x, mid + 1, hi)
            ELSE bisect_left_loop(a, x, lo, mid)
    ELSE lo

\* bisect.bisect_left(a, x): binary search over a[0:len(a)], 0-based result.
bisect_left(a, x) == bisect_left_loop(a, x, 0, Len(a))

\* array.insert(i, x) for 0 <= i <= len: x lands at 0-based index i.
insert(a, i, x) == SubSeq(a, 1, i) \o <<x>> \o SubSeq(a, i + 1, Len(a))

RECURSIVE sorted_desc(_)
sorted_desc(s) ==
    IF s = <<>> THEN <<>>
    ELSE LET rest == sorted_desc(SubSeq(s, 1, Len(s) - 1))
             x    == s[Len(s)]
             k    == Cardinality({j \in 1..Len(rest) : rest[j] >= x})
         IN insert(rest, k, x)

RECURSIVE sorted(_)
\* sorted(data): a new ascending list of the items, equal items keeping
\* their input order (each item is inserted after the items not above it).
sorted(s) ==
    IF s = <<>> THEN <<>>
    ELSE LET rest == sorted(SubSeq(s, 1, Len(s) - 1))
         IN insert(rest, bisect_right(rest, s[Len(s)]), s[Len(s)])

RECURSIVE dedup(_)
dedup(s) ==
    IF s = <<>> THEN <<>>
    ELSE LET rest == dedup(SubSeq(s, 1, Len(s) - 1))
         IN IF \E j \in 1..Len(rest) : rest[j] = s[Len(s)]
            THEN rest ELSE Append(rest, s[Len(s)])

\* A constructor that drops repeated values on both paths.
NewDedup(inp, flag) == IF flag THEN dedup(inp) ELSE sorted(dedup(inp))

\* A constructor that sorts a set of the input: sorted(set(data)).
NewSortedSet(inp, flag) == IF flag THEN inp ELSE sorted(dedup(inp))

\* A constructor that never sorts.
NewNoSort(inp, flag) == inp

\* A constructor that sorts whatever the flag says.
NewAlwaysSort(inp, flag) == sorted(inp)

\* SnowflakeList.__new__: the items array.array receives.
New(inp, flag) == IF flag THEN inp ELSE sorted(inp)

\* array.array.__new__ raises OverflowError on an item outside typecode Q.
NewRaises(inp, flag) == \E j \in 1..Len(inp) : ~FitsQ(inp[j])

\* add that appends instead of inserting at the bisection point.
AddAppend(a, x) == Append(a, x)

\* add that skips a value already present.
AddDedup(a, x) ==
    LET i == bisect_left(a, x)
    IN IF i # Len(a) /\ a[i + 1] = x THEN a ELSE insert(a, i, x)

\* add that stores over the item at the bisection point instead of shifting.
AddOverwrite(a, x) ==
    LET i == bisect_left(a, x)
    IN IF i # Len(a) THEN [a EXCEPT ![i + 1] = x] ELSE Append(a, x)

\* add that inserts one position past the bisection point.
AddOnePast(a, x) ==
    LET i == bisect_left(a, x)
    IN insert(a, IF i < Len(a) THEN i + 1 ELSE i, x)

\* SnowflakeList.add: the array after a successful add(element).
Add(a, x) == insert(a, bisect_left(a, x), x)

\* get that tests the found item for truthiness.
GetTruthy(a, x) ==
    LET i == bisect_left(a, x)
    IN IF i # Len(a) /\ a[i + 1] = x /\ a[i + 1] # 0 THEN a[i + 1] ELSE None

\* SnowflakeList.get
Get(a, x) ==
    LET i == bisect_left(a, x)
    IN IF i # Len(a) /\ a[i + 1] = x THEN a[i + 1] ELSE None

\* has that searches with bisect_right.
HasRight(a, x) ==
    LET i == bisect_right(a, x)
    IN i # Len(a) /\ a[i + 1] = x

\* SnowflakeList.has
Has(a, x) ==
    LET i == bisect_left(a, x)
    IN i # Len(a) /\ a[i + 1] = x

RECURSIVE contains_loop(_, _, _)
contains_loop(a, x, i) ==
    IF i >= Len(a) THEN FALSE
    ELSE IF a[i + 1] = x THEN TRUE
    ELSE contains_loop(a, x, i + 1)

\* `x in container`: SnowflakeList defines no __contains__, so this is
\* array.array's, a scan from the first item comparing each for equality.
Contains(a, x) == contains_loop(a, x, 0)

\* An index as array.array reads it: a negative one counts from the end.
NormIndex(a, i) == IF i < 0 THEN i + Len(a) ELSE i

\* The index names an item; otherwise indexing raises IndexError.
ValidIndex(a, i) == NormIndex(a, i) >= 0 /\ NormIndex(a, i) < Len(a)

\* The array without the item at 0-based position k.
DelAt(a, k) == SubSeq(a, 1, k) \o SubSeq(a, k + 2, Len(a))

\* array.pop(i), pop() being pop(-1): the array without the item at i.
Pop(a, i) == DelAt(a, NormIndex(a, i))

\* array.remove(x): the array without the first occurrence of x.
Remove(a, x) ==
    LET k == CHOOSE j \in 1..Len(a) :
                 a[j] = x /\ \A m \in 1..(j - 1) : a[m] # x
    IN SubSeq(a, 1, k - 1) \o SubSeq(a, k + 1, Len(a))

\* array.insert(i, x): a negative i counts from the end, and an i outside
\* the array is brought to its nearer end.
ArrayInsert(a, i, x) ==
    LET j == NormIndex(a, i)
        k == IF j < 0 THEN 0 ELSE IF j > Len(a) THEN Len(a) ELSE j
    IN insert(a, k, x)

\* a[i] = x
SetItem(a, i, x) == [a EXCEPT ![NormIndex(a, i) + 1] = x]

\* array.reverse()
Reverse(a) == [k \in 1..Len(a) |-> a[Len(a) + 1 - k]]

RECURSIVE extend_loop(_, _, _)
extend_loop(a, items, k) ==
    IF k >= Len(items) THEN [data |-> a, exc |-> NoExc]
    ELSE IF ~FitsQ(items[k + 1]) THEN [data |-> a, exc |-> "OverflowError"]
    ELSE extend_loop(Append(a, items[k + 1]), items, k + 1)

\* array.extend(iterable) with an iterable that is not an array: the items
\* are appended one at a time, and those appended before an item that does
\* not fit stay.
Extend(a, items) == extend_loop(a, items, 0)

\* array.fromlist(list): all the items are appended, or none is.
FromList(a, items) ==
    IF \A k \in 1..Len(items) : FitsQ(items[k])
    THEN [data |-> a \o items, exc |-> NoExc]
    ELSE [data |-> a, exc |-> "OverflowError"]

RECURSIVE Repeat(_, _)
\* a *= k: k copies of the array, none for k <= 0.
Repeat(a, k) == IF k <= 0 THEN <<>> ELSE a \o Repeat(a, k - 1)

\* The base of a byte.  The source's item is 8 bytes of base 256; the
\* model's is two bytes of the least base whose pairs cover 0..MaxValue.
ByteBase ==
    CHOOSE b \in 2..(MaxValue + 1) :
        /\ b * b > MaxValue
        /\ \A c \in 2..(b - 1) : c * c <= MaxValue

\* The bytes of one item, least significant first (the machine's order on
\* the build observed).
Encode(v) == <<v % ByteBase, v \div ByteBase>>

\* array.itemsize: bytes per item.
ItemSize == Len(Encode(0))

\* The item that a run of ItemSize bytes holds.
Decode(b) == b[1] + ByteBase * b[2]

RECURSIVE ToBytes(_)
\* array.tobytes(): the bytes of the items, in order.
ToBytes(items) ==
    IF items = <<>> THEN <<>> ELSE Encode(Head(items)) \o ToBytes(Tail(items))

\* The items held by a byte string of a whole number of items.
FromBytesItems(b) ==
    [k \in 1..(Len(b) \div ItemSize) |->
        Decode(SubSeq(b, (k - 1) * ItemSize + 1, k * ItemSize))]

\* One item with its bytes in the opposite order.  Where the range is not a
\* whole number of byte pairs, an item whose swapped bytes fall outside it
\* is left as it is.
ByteSwapItem(v) ==
    LET w == Decode(Reverse(Encode(v)))
    IN IF w <= MaxValue THEN w ELSE v

\* array.byteswap()
ByteSwap(a) == [k \in 1..Len(a) |-> ByteSwapItem(a[k])]

\* array.frombytes(b): the items of b are appended, unless b is not a whole
\* number of items.
FromBytes(a, b) ==
    IF Len(b) % ItemSize # 0
    THEN [data |-> a, exc |-> "ValueError"]
    ELSE [data |-> a \o FromBytesItems(b), exc |-> NoExc]

\* array.fromfile(f, k), b being the bytes left in f: k * itemsize bytes are
\* read, or what is left if that is less, and handed to frombytes; a short
\* read that frombytes took raises EOFError after the items are appended.
FromFile(a, b, k) ==
    IF k < 0 THEN [data |-> a, exc |-> "ValueError"]
    ELSE LET want == k * ItemSize
             got == SubSeq(b, 1, IF want < Len(b) THEN want ELSE Len(b))
             r == FromBytes(a, got)
         IN IF r.exc # NoExc THEN r
            ELSE IF Len(got) < want THEN [data |-> r.data, exc |-> "EOFError"]
            ELSE r

\* A slice bound as PySlice_AdjustIndices leaves it: a negative one counts
\* from the end, one that is left out is the end the step starts from (for
\* start) or runs to (for stop), and one outside the array is brought in.
SliceBound(len, b, step, is_start) ==
    LET lo == IF step < 0 THEN 0 - 1 ELSE 0
        hi == IF step < 0 THEN len - 1 ELSE len
    IN IF b.none
       THEN IF (step < 0) = is_start THEN hi ELSE lo
       ELSE LET j == IF b.ret < 0 THEN b.ret + len ELSE b.ret
            IN IF j < lo THEN lo ELSE IF j > hi THEN hi ELSE j

\* The 0-based positions a[start:stop:step] names, in the slice's order.
SlicePositions(a, sl) ==
    LET start == SliceBound(Len(a), sl.start, sl.step, TRUE)
        stop == SliceBound(Len(a), sl.stop, sl.step, FALSE)
        count == IF sl.step > 0
                 THEN IF start < stop
                      THEN (stop - start - 1) \div sl.step + 1 ELSE 0
                 ELSE IF stop < start
                      THEN (start - stop - 1) \div (0 - sl.step) + 1 ELSE 0
    IN [k \in 1..count |-> start + (k - 1) * sl.step]

RECURSIVE drop_loop(_, _, _)
drop_loop(a, P, i) ==
    IF i >= Len(a) THEN <<>>
    ELSE (IF i \in P THEN <<>> ELSE <<a[i + 1]>>) \o drop_loop(a, P, i + 1)

\* del a[start:stop:step]: the array without the items the slice names.
DelSlice(a, sl) ==
    LET ps == SlicePositions(a, sl)
    IN drop_loop(a, {ps[k] : k \in 1..Len(ps)}, 0)

\* a[start:stop:step] = other, other an array of typecode "Q".  With step 1
\* the slice is replaced by other, whatever their lengths; otherwise an
\* empty other deletes the slice, and any other must have the slice's
\* length (ValueError) and is written over its positions in order.
SetSlice(a, sl, other) ==
    LET ps == SlicePositions(a, sl)
        start == SliceBound(Len(a), sl.start, sl.step, TRUE)
    IN IF sl.step = 1
       THEN [data |-> SubSeq(a, 1, start) \o other
                      \o SubSeq(a, start + Len(ps) + 1, Len(a)),
             exc |-> NoExc]
       ELSE IF other = <<>>
       THEN [data |-> DelSlice(a, sl), exc |-> NoExc]
       ELSE IF Len(other) # Len(ps)
       THEN [data |-> a, exc |-> "ValueError"]
       ELSE [data |-> [i \in 1..Len(a) |->
                          IF \E k \in 1..Len(ps) : ps[k] = i - 1
                          THEN other[CHOOSE k \in 1..Len(ps) : ps[k] = i - 1]
                          ELSE a[i]],
             exc |-> NoExc]

(* ------------------------------- state -------------------------------- *)

VARIABLES
    data,       \* the items of the array, in index order
    is_sorted,  \* the constructor's is_sorted argument
    op,         \* the last call: "new", "add", "get", "has", "in", or the
                \* name of an inherited array.array operation
    arg,        \* its argument, the iterable for "new"; a tuple where there
                \* are two, None where there is none
    ret,        \* its return value (None where the call returns nothing)
    exc,        \* the exception it raised, or NoExc
    fn,         \* the module-level helper being called, "none" if none is
    args,       \* the helper's arguments, a record
    pc,         \* where the helper's call stands
    result,     \* what the helper returned or raised, a record
    pos,        \* as_chunks: items the generator has taken from the iterator
    chunk,      \* as_chunks: the generator's local list (ret in the source)
    n,          \* as_chunks: the generator's local counter
    yielded     \* as_chunks: the chunks the generator has yielded so far

listVars == <<data, is_sorted, op, arg, ret, exc>>

genVars == <<pos, chunk, n, yielded>>

helperVars == <<fn, args, pc, result, pos, chunk, n, yielded>>

vars == <<data, is_sorted, op, arg, ret, exc,
          fn, args, pc, result, pos, chunk, n, yielded>>

\* No helper is being called.
HelperIdle ==
    /\ fn = "none" /\ args = <<>> /\ pc = "idle" /\ result = <<>>
    /\ pos = 0 /\ chunk = <<>> /\ n = 0 /\ yielded = <<>>

\* The generator of as_chunks has not run.
GenIdle == pos = 0 /\ chunk = <<>> /\ n = 0 /\ yielded = <<>>

\* The constructor returned an object.
Constructed == ~(op = "new" /\ exc # NoExc)

\* State after SnowflakeList(inp, is_sorted=flag).
Init ==
    \E inp \in Inputs, flag \in BOOLEAN :
        /\ is_sorted = flag
        /\ op = "new"
        /\ arg = inp
        /\ ret = None
        /\ IF NewRaises(inp, flag)
           THEN data = <<>> /\ exc = "OverflowError"
           ELSE data = New(inp, flag) /\ exc = NoExc
        /\ HelperIdle

\* container.add(x)
AddCall(x) ==
    /\ Constructed
    /\ Len(data) < MaxLen
    /\ op' = "add" /\ arg' = x /\ ret' = None
    /\ IF FitsQ(x)
       THEN data' = Add(data, x) /\ exc' = NoExc
       ELSE data' = data /\ exc' = "OverflowError"
    /\ UNCHANGED is_sorted
    /\ UNCHANGED helperVars

\* container.get(x)
GetCall(x) ==
    /\ Constructed
    /\ op' = "get" /\ arg' = x /\ ret' = Get(data, x) /\ exc' = NoExc
    /\ UNCHANGED <<data, is_sorted>>
    /\ UNCHANGED helperVars

\* container.has(x)
HasCall(x) ==
    /\ Constructed
    /\ op' = "has" /\ arg' = x /\ ret' = Has(data, x) /\ exc' = NoExc
    /\ UNCHANGED <<data, is_sorted>>
    /\ UNCHANGED helperVars

\* x in container
ContainsCall(x) ==
    /\ Constructed
    /\ op' = "in" /\ arg' = x /\ ret' = Contains(data, x) /\ exc' = NoExc
    /\ UNCHANGED <<data, is_sorted>>
    /\ UNCHANGED helperVars

\* Index arguments: the positions of the longest array, one past them, and
\* the negative indexes of its last two items.
Indexes == (0 - 2) .. MaxInput

\* Items handed to insert and to item assignment: the largest item and the
\* first value past it.
StoreItems == {MaxValue, MaxValue + 1}

\* The lists handed to extend and fromlist: with and without an item that
\* does not fit, before or after one that does.
Extensions ==
    {<<0>>, <<MaxValue, 0>>, <<0, MaxValue + 1>>, <<MaxValue + 1, 0>>}

\* The arrays of typecode "Q" handed to +=.
Arrays == {e \in Extensions : \A k \in 1..Len(e) : FitsQ(e[k])}

\* Factors handed to *=.
Factors == (0 - 1) .. 2

\* The calls of NextArray leave the array no longer than MaxInput items.
Room(k) == Len(data) + k <= MaxInput

\* container.add(x) where the array has room
ArrayAddCall(x) == Room(1) /\ AddCall(x)

\* container.pop(i), inherited from array.array; pop() is pop(-1)
PopCall(i) ==
    /\ Constructed
    /\ op' = "pop" /\ arg' = i
    /\ IF ValidIndex(data, i)
       THEN /\ data' = Pop(data, i)
            /\ ret' = data[NormIndex(data, i) + 1]
            /\ exc' = NoExc
       ELSE data' = data /\ ret' = None /\ exc' = "IndexError"
    /\ UNCHANGED is_sorted
    /\ UNCHANGED helperVars

\* container.remove(x), inherited from array.array
RemoveCall(x) ==
    /\ Constructed
    /\ op' = "remove" /\ arg' = x /\ ret' = None
    /\ IF Contains(data, x)
       THEN data' = Remove(data, x) /\ exc' = NoExc
       ELSE data' = data /\ exc' = "ValueError"
    /\ UNCHANGED is_sorted
    /\ UNCHANGED helperVars

\* container.append(x), inherited from array.array
AppendCall(x) ==
    /\ Constructed
    /\ Room(1)
    /\ op' = "append" /\ arg' = x /\ ret' = None
    /\ IF FitsQ(x)
       THEN data' = Append(data, x) /\ exc' = NoExc
       ELSE data' = data /\ exc' = "OverflowError"
    /\ UNCHANGED is_sorted
    /\ UNCHANGED helperVars

\* container.insert(i, x), inherited from array.array
InsertCall(i, x) ==
    /\ Constructed
    /\ Room(1)
    /\ op' = "insert" /\ arg' = <<i, x>> /\ ret' = None
    /\ IF FitsQ(x)
       THEN data' = ArrayInsert(data, i, x) /\ exc' = NoExc
       ELSE data' = data /\ exc' = "OverflowError"
    /\ UNCHANGED is_sorted
    /\ UNCHANGED helperVars

\* container[i] = x, inherited from array.array: the index is checked
\* before the value.
SetItemCall(i, x) ==
    /\ Constructed
    /\ op' = "setitem" /\ arg' = <<i, x>> /\ ret' = None
    /\ IF ~ValidIndex(data, i)
       THEN data' = data /\ exc' = "IndexError"
       ELSE IF ~FitsQ(x)
       THEN data' = data /\ exc' = "OverflowError"
       ELSE data' = SetItem(data, i, x) /\ exc' = NoExc
    /\ UNCHANGED is_sorted
    /\ UNCHANGED helperVars

\* del container[i], inherited from array.array
DelItemCall(i) ==
    /\ Constructed
    /\ op' = "delitem" /\ arg' = i /\ ret' = None
    /\ IF ValidIndex(data, i)
       THEN data' = Pop(data, i) /\ exc' = NoExc
       ELSE data' = data /\ exc' = "IndexError"
    /\ UNCHANGED is_sorted
    /\ UNCHANGED helperVars

\* container.reverse(), inherited from array.array
ReverseCall ==
    /\ Constructed
    /\ op' = "reverse" /\ arg' = None /\ ret' = None
    /\ data' = Reverse(data) /\ exc' = NoExc
    /\ UNCHANGED is_sorted
    /\ UNCHANGED helperVars

\* container.extend(items) with a list, inherited from array.array
ExtendCall(items) ==
    /\ Constructed
    /\ Room(Len(items))
    /\ op' = "extend" /\ arg' = items /\ ret' = None
    /\ data' = Extend(data, items).data
    /\ exc' = Extend(data, items).exc
    /\ UNCHANGED is_sorted
    /\ UNCHANGED helperVars

\* container.fromlist(items), inherited from array.array
FromListCall(items) ==
    /\ Constructed
    /\ Room(Len(items))
    /\ op' = "fromlist" /\ arg' = items /\ ret' = None
    /\ data' = FromList(data, items).data
    /\ exc' = FromList(data, items).exc
    /\ UNCHANGED is_sorted
    /\ UNCHANGED helperVars

\* container += other, other an array of typecode "Q"; __iadd__ returns
\* the container.
IAddCall(other) ==
    /\ Constructed
    /\ Room(Len(other))
    /\ op' = "iadd" /\ arg' = other
    /\ data' = data \o other /\ ret' = data' /\ exc' = NoExc
    /\ UNCHANGED is_sorted
    /\ UNCHANGED helperVars

\* container *= k; __imul__ returns the container.
IMulCall(k) ==
    /\ Constructed
    /\ k > 0 => Len(data) * k <= MaxInput
    /\ op' = "imul" /\ arg' = k
    /\ data' = Repeat(data, k) /\ ret' = data' /\ exc' = NoExc
    /\ UNCHANGED is_sorted
    /\ UNCHANGED helperVars

\* The arrays of typecode "Q" assigned to slices.
SliceValues == {<<>>, <<0>>, <<MaxValue, 0>>}

\* The slice a[start:stop:step]; step 1 is also what a step left out means.
Slice(start, stop, step) == [start |-> start, stop |-> stop, step |-> step]

\* The slices assigned to and deleted: a[:], a[0:2], a[1:], a[2:1], a[:-1],
\* a[::2] and a[::-1].
Slices ==
    {Slice(Nothing, Nothing, 1), Slice(Some(0), Some(2), 1),
     Slice(Some(1), Nothing, 1), Slice(Some(2), Some(1), 1),
     Slice(Nothing, Some(0 - 1), 1), Slice(Nothing, Nothing, 2),
     Slice(Nothing, Nothing, 0 - 1)}

\* The byte strings handed to frombytes and left in the files handed to
\* fromfile: whole items, and an item with one byte more.
ByteStrings ==
    {<<>>, ToBytes(<<MaxValue>>), ToBytes(<<1, 0>>), ToBytes(<<1>>) \o <<1>>}

\* Item counts handed to fromfile.
Counts == {0 - 1, 1, 2}

\* container.byteswap(), inherited from array.array
ByteSwapCall ==
    /\ Constructed
    /\ op' = "byteswap" /\ arg' = None /\ ret' = None
    /\ data' = ByteSwap(data) /\ exc' = NoExc
    /\ UNCHANGED is_sorted
    /\ UNCHANGED helperVars

\* container.frombytes(b), inherited from array.array
FromBytesCall(b) ==
    /\ Constructed
    /\ Room(Len(b) \div ItemSize)
    /\ op' = "frombytes" /\ arg' = b /\ ret' = None
    /\ LET r == FromBytes(data, b)
       IN data' = r.data /\ exc' = r.exc
    /\ UNCHANGED is_sorted
    /\ UNCHANGED helperVars

\* container.fromfile(f, k), inherited from array.array; b is what is left
\* in f.
FromFileCall(b, k) ==
    /\ Constructed
    /\ op' = "fromfile" /\ arg' = <<b, k>> /\ ret' = None
    /\ LET r == FromFile(data, b, k)
       IN Len(r.data) <= MaxInput /\ data' = r.data /\ exc' = r.exc
    /\ UNCHANGED is_sorted
    /\ UNCHANGED helperVars

\* del container[start:stop:step], inherited from array.array
DelSliceCall(sl) ==
    /\ Constructed
    /\ op' = "delslice" /\ arg' = sl /\ ret' = None
    /\ data' = DelSlice(data, sl) /\ exc' = NoExc
    /\ UNCHANGED is_sorted
    /\ UNCHANGED helperVars

\* container[start:stop:step] = other, inherited from array.array
SetSliceCall(sl, other) ==
    /\ Constructed
    /\ op' = "setslice" /\ arg' = <<sl, other>> /\ ret' = None
    /\ LET r == SetSlice(data, sl, other)
       IN Len(r.data) <= MaxInput /\ data' = r.data /\ exc' = r.exc
    /\ UNCHANGED is_sorted
    /\ UNCHANGED helperVars

\* The operations SnowflakeList defines, and the membership test.
Next ==
    \E x \in Values :
        \/ AddCall(x)
        \/ GetCall(x)
        \/ HasCall(x)
        \/ ContainsCall(x)

Spec == Init /\ [][Next]_vars

\* Those operations together with the mutators the array base class
\* brings.
NextArray ==
    \/ \E x \in Values :
        \/ ArrayAddCall(x)
        \/ GetCall(x)
        \/ HasCall(x)
        \/ ContainsCall(x)
        \/ RemoveCall(x)
        \/ AppendCall(x)
    \/ \E i \in Indexes :
        \/ PopCall(i)
        \/ DelItemCall(i)
    \/ \E i \in Indexes, x \in StoreItems :
        \/ InsertCall(i, x)
        \/ SetItemCall(i, x)
    \/ ReverseCall
    \/ ByteSwapCall
    \/ \E sl \in Slices :
        \/ DelSliceCall(sl)
        \/ \E other \in SliceValues : SetSliceCall(sl, other)
    \/ \E b \in ByteStrings :
        \/ FromBytesCall(b)
        \/ \E k \in Counts : FromFileCall(b, k)
    \/ \E items \in Extensions :
        \/ ExtendCall(items)
        \/ FromListCall(items)
    \/ \E other \in Arrays : IAddCall(other)
    \/ \E k \in Factors : IMulCall(k)

SpecArray == Init /\ [][NextArray]_vars

TypeOK ==
    /\ data \in Seq(0..MaxValue) /\ Len(data) <= MaxLen
    /\ op = "new" => arg \in Inputs
    /\ is_sorted \in BOOLEAN
    /\ op \in {"new", "add", "get", "has", "in", "pop", "remove", "append",
               "insert", "setitem", "delitem", "delslice", "setslice",
               "reverse", "byteswap", "extend", "fromlist", "frombytes",
               "fromfile", "iadd", "imul"}
    /\ exc \in {NoExc, "OverflowError", "IndexError", "ValueError", "EOFError"}

(* ------------------------ properties of the list ---------------------- *)

IsAscending(s) == \A i \in 1..(Len(s) - 1) : s[i] <= s[i + 1]

NoDuplicates(s) == \A i, j \in 1..Len(s) : i # j => s[i] # s[j]

\* Number of positions of s holding v.
Count(s, v) == Cardinality({i \in 1..Len(s) : s[i] = v})

\* The constructor returned and nothing has been called since.
JustConstructed == op = "new" /\ exc = NoExc

\* C1: a list constructed with is_sorted=False holds its items in
\* non-decreasing order, at construction and after every add.
C1_AscendingAfterSortAndAdds ==
    (Constructed /\ ~is_sorted) => IsAscending(data)

\* C1 witness: on a list constructed with is_sorted=False an add has
\* landed strictly inside a list of four items.
C1_Witness ==
    /\ ~is_sorted
    /\ op = "add" /\ exc = NoExc
    /\ Len(data) = 4
    /\ data[1] < arg /\ arg < data[Len(data)]

\* C2: on a list constructed with is_sorted=False, has(x) is true in the
\* state right after add(x), and a has(x) that is true stays true over
\* every further add (and get, has, in).
C2_HasAfterAddAndLater ==
    [][ (Constructed /\ ~is_sorted) =>
          /\ (op' = "add" /\ exc' = NoExc) => Has(data', arg')
          /\ \A x \in 0..MaxValue : Has(data, x) => Has(data', x) ]_vars

\* C2 witness: an add has gone through, the added value is found, and so
\* are a smaller and a larger value stored beside it.
C2_Witness ==
    /\ ~is_sorted /\ op = "add" /\ exc = NoExc
    /\ Has(data, arg)
    /\ \E x, y \in 0..MaxValue : x < arg /\ arg < y /\ Has(data, x) /\ Has(data, y)

\* C3: in every state of the list, sorted or not, and for every x, get(x)
\* is x exactly when has(x) is true and is None exactly when has(x) is false.
C3_GetAgreesWithHas ==
    Constructed =>
        \A x \in Values :
            /\ (Get(data, x) = x) <=> Has(data, x)
            /\ (Get(data, x) = None) <=> ~Has(data, x)

\* C3 witness: get(0) was called on a list holding 0 and returned 0.
C3_Witness ==
    op = "get" /\ arg = 0 /\ ret = 0 /\ Has(data, 0)

\* C4: add(x) on an ascending list that already holds x lengthens it by one
\* and leaves two neighbouring positions holding x.
C4_AddKeepsDuplicate ==
    [][ (Constructed /\ op' = "add" /\ exc' = NoExc
         /\ IsAscending(data) /\ Contains(data, arg')) =>
          /\ Len(data') = Len(data) + 1
          /\ \E i \in 1..(Len(data') - 1) :
                data'[i] = arg' /\ data'[i + 1] = arg' ]_vars

\* C4 witness: a value was added that now stands exactly twice, side by
\* side, between a smaller and a larger item.
C4_Witness ==
    /\ op = "add" /\ exc = NoExc /\ IsAscending(data)
    /\ Count(data, arg) = 2
    /\ \E i \in 2..(Len(data) - 2) :
          /\ data[i] = arg /\ data[i + 1] = arg
          /\ data[i - 1] < arg /\ arg < data[i + 2]

\* C5 as stated: right after construction the list holds no value twice.
C5_NoDuplicatesAfterNew ==
    JustConstructed => NoDuplicates(data)

\* C5 amended: right after construction the list holds a value twice
\* exactly when the input does; the constructor removes nothing.
C5_DuplicatesExactlyAsInput ==
    JustConstructed => (NoDuplicates(data) <=> NoDuplicates(arg))

\* C5 witness: a sorting construction from an input with a repeated value
\* whose result still holds that value twice.
C5_Witness ==
    /\ JustConstructed /\ ~is_sorted
    /\ ~NoDuplicates(arg) /\ ~NoDuplicates(data)

\* C6: construction with is_sorted=False stores the non-decreasing
\* rearrangement of the input: same length, same number of each value.
C6_NewSortsInput ==
    (JustConstructed /\ ~is_sorted) =>
        /\ IsAscending(data)
        /\ Len(data) = Len(arg)
        /\ \A v \in Values : Count(data, v) = Count(arg, v)

\* C6 witness: an out-of-order input of full length with a repeated value.
C6_Witness ==
    /\ JustConstructed /\ ~is_sorted
    /\ Len(arg) = MaxInput /\ ~IsAscending(arg) /\ ~NoDuplicates(arg)
    /\ data # arg

\* C7: construction with is_sorted=True from an ascending input stores the
\* input item for item.
C7_NewKeepsSortedInput ==
    (JustConstructed /\ is_sorted /\ IsAscending(arg)) => data = arg

\* C7 witness: an ascending input of at least two items, one of them
\* repeated, constructed with is_sorted=True.
C7_Witness ==
    /\ JustConstructed /\ is_sorted /\ IsAscending(arg)
    /\ Len(arg) >= 2 /\ ~NoDuplicates(arg) /\ data = arg

\* C8: on a list constructed with is_sorted=False, after any adds, the
\* membership test `x in container` and has(x) give the same boolean.
C8_InAgreesWithHas ==
    (Constructed /\ ~is_sorted) =>
        \A x \in Values : Contains(data, x) <=> Has(data, x)

\* C8 witness: after an add, `x in container` answered True for a value
\* that is not the first item, and has agrees.
C8_Witness ==
    /\ ~is_sorted /\ op = "in" /\ ret = TRUE
    /\ Len(data) >= 2
    /\ data[1] # arg /\ Has(data, arg)

\* C9: add(x), get(x) and has(x) with x in the item range raise nothing,
\* whatever the list holds, the empty list included.
C9_NoErrorInRange ==
    (op \in {"add", "get", "has"} /\ arg \in 0..MaxValue) => exc = NoExc

\* C9 witness: the largest storable value was added to an empty list.
C9_Witness ==
    /\ op = "add" /\ arg = MaxValue
    /\ exc = NoExc /\ data = <<MaxValue>>

\* C10 as stated: no operation available on the container removes an item,
\* so length never decreases and no value's count decreases.
C10_NothingRemoves ==
    [][ Constructed =>
          /\ Len(data') >= Len(data)
          /\ \A v \in Values : Count(data', v) >= Count(data, v) ]_vars

\* C10 amended: the operations SnowflakeList defines (add, get, has) and
\* the membership test never remove an item; the mutators the class
\* inherits from array.array (pop, remove, del, item and slice assignment,
\* byteswap, *=) do.
C10_OwnOperationsKeepItems ==
    [][ (Constructed /\ op' \in {"add", "get", "has", "in"}) =>
          \/ data' = data
          \/ /\ Len(data') >= Len(data)
             /\ \A v \in Values : Count(data', v) >= Count(data, v) ]_vars

\* C10 witness: an add below the last item went through and filled the
\* array.
C10_Witness ==
    /\ op = "add" /\ exc = NoExc
    /\ Len(data) = MaxInput
    /\ arg < data[Len(data)]


(* ------------------------------ as_chunks ----------------------------- *)

\* The container is not in play: an empty list, nothing called on it.
ListIdle ==
    /\ data = <<>> /\ is_sorted = FALSE /\ op = "new" /\ arg = <<>>
    /\ ret = None /\ exc = NoExc

\* Items the iterators yield.
Items == 1..2

\* Iterators handed to as_chunks, as the sequence of items they will yield.
Iterators == UNION {[1..k -> Items] : k \in 0..MaxIter}

\* A size check that lets 0 through.
BadSizeNegative(max_size) == max_size < 0

\* as_chunks: `if max_size <= 0: raise ValueError`.
BadSize(max_size) == max_size <= 0

\* A generator that drops what is left when the iterator runs out.
FlushRestNever(c) == FALSE

\* _chunk / _achunk: `if ret: yield ret` after the loop.
FlushRest(c) == c # <<>>

RECURSIVE chunk_loop(_, _, _, _, _)
\* _chunk: the for loop from position p with locals c (ret) and k (n), up
\* to the next yield or the end of the generator.  Nothing else runs while
\* a synchronous generator does, so this is one step.
chunk_loop(it, max_size, p, c, k) ==
    IF p < Len(it)
    THEN LET c1 == Append(c, it[p + 1])
             k1 == k + 1
         IN IF k1 = max_size
            THEN [at |-> "yielded", pos |-> p + 1, chunk |-> c1, n |-> k1]
            ELSE chunk_loop(it, max_size, p + 1, c1, k1)
    ELSE IF FlushRest(c)
         THEN [at |-> "yielded_last", pos |-> p, chunk |-> c, n |-> k]
         ELSE [at |-> "done", pos |-> p, chunk |-> c, n |-> k]

\* _achunk: one turn of the `async for` loop, from the item (or the end of
\* the iterator) that the awaited __anext__ delivers at position p to the
\* next await, yield or end of the generator.
achunk_item(it, max_size, p, c, k) ==
    IF p < Len(it)
    THEN LET c1 == Append(c, it[p + 1])
             k1 == k + 1
         IN [at |-> IF k1 = max_size THEN "yielded" ELSE "awaiting",
             pos |-> p + 1, chunk |-> c1, n |-> k1]
    ELSE IF FlushRest(c)
         THEN [at |-> "yielded_last", pos |-> p, chunk |-> c, n |-> k]
         ELSE [at |-> "done", pos |-> p, chunk |-> c, n |-> k]

\* Before the call as_chunks(iterator, max_size).
InitChunks ==
    \E it \in Iterators, m \in (0 - 1)..MaxChunk, a \in BOOLEAN :
        /\ ListIdle
        /\ fn = "as_chunks"
        /\ args = [iterator |-> it, max_size |-> m, is_async |-> a]
        /\ pc = "call"
        /\ result = <<>>
        /\ GenIdle

\* as_chunks(iterator, max_size): raises, or returns a generator of _achunk
\* or _chunk that has not started.
AsChunksCall ==
    /\ fn = "as_chunks" /\ pc = "call"
    /\ IF BadSize(args.max_size)
       THEN pc' = "raised" /\ result' = [exc |-> "ValueError"]
       ELSE /\ pc' = "created"
            /\ result' = [gen |-> IF args.is_async THEN "_achunk" ELSE "_chunk"]
    /\ UNCHANGED <<fn, args>>
    /\ UNCHANGED genVars
    /\ UNCHANGED listVars

\* next() on the generator of _chunk: runs it to its next yield or its end.
\* A generator resumed at the yield inside the loop first resets ret and n.
ChunkNext ==
    /\ fn = "as_chunks" /\ ~args.is_async
    /\ pc \in {"created", "yielded", "yielded_last"}
    /\ IF pc = "yielded_last"
       THEN pc' = "done" /\ UNCHANGED genVars
       ELSE LET r == chunk_loop(args.iterator, args.max_size, pos, <<>>, 0)
            IN /\ pc' = r.at
               /\ pos' = r.pos
               /\ chunk' = r.chunk
               /\ n' = r.n
               /\ yielded' = IF r.at = "done" THEN yielded
                             ELSE Append(yielded, r.chunk)
    /\ UNCHANGED <<fn, args, result>>
    /\ UNCHANGED listVars

\* anext() on the generator of _achunk, up to its first await: a generator
\* resumed after its last yield ends; otherwise ret and n are fresh and the
\* generator is suspended in `async for`, awaiting the iterator's next item.
AchunkNext ==
    /\ fn = "as_chunks" /\ args.is_async
    /\ pc \in {"created", "yielded", "yielded_last"}
    /\ IF pc = "yielded_last"
       THEN pc' = "done" /\ UNCHANGED genVars
       ELSE /\ pc' = "awaiting"
            /\ chunk' = <<>> /\ n' = 0
            /\ UNCHANGED <<pos, yielded>>
    /\ UNCHANGED <<fn, args, result>>
    /\ UNCHANGED listVars

\* The awaited __anext__ of the iterator completes and _achunk runs to its
\* next await, yield or end.  Between two such steps the event loop may run
\* other tasks, which see ret and n as they stand.
AchunkItem ==
    /\ fn = "as_chunks" /\ args.is_async
    /\ pc = "awaiting"
    /\ LET r == achunk_item(args.iterator, args.max_size, pos, chunk, n)
       IN /\ pc' = r.at
          /\ pos' = r.pos
          /\ chunk' = r.chunk
          /\ n' = r.n
          /\ yielded' = IF r.at \in {"yielded", "yielded_last"}
                        THEN Append(yielded, r.chunk)
                        ELSE yielded
    /\ UNCHANGED <<fn, args, result>>
    /\ UNCHANGED listVars

NextChunks == AsChunksCall \/ ChunkNext \/ AchunkNext \/ AchunkItem

SpecChunks == InitChunks /\ [][NextChunks]_vars

RECURSIVE Concat(_)
\* The chunks of a sequence of chunks, joined in order.
Concat(cs) == IF cs = <<>> THEN <<>> ELSE Head(cs) \o Concat(Tail(cs))

\* C11: when a synchronous iterator has been chunked to the end with
\* max_size >= 1, the chunks joined in order are the input; every chunk is
\* non-empty, every chunk but the last has exactly max_size items, the last
\* has between 1 and max_size, and an empty input gives no chunk.
C11_ChunksPartitionInput ==
    (fn = "as_chunks" /\ pc = "done" /\ ~args.is_async) =>
        /\ Concat(yielded) = args.iterator
        /\ \A i \in 1..Len(yielded) :
              /\ Len(yielded[i]) >= 1
              /\ Len(yielded[i]) <= args.max_size
              /\ i < Len(yielded) => Len(yielded[i]) = args.max_size
        /\ args.iterator = <<>> => yielded = <<>>

\* C11 witness: a synchronous iterator was chunked to the end into at least
\* two chunks, the last one shorter than max_size.
C11_Witness ==
    /\ fn = "as_chunks" /\ pc = "done" /\ ~args.is_async
    /\ Len(yielded) >= 2
    /\ Len(yielded[Len(yielded)]) < args.max_size

\* C12: as_chunks with max_size <= 0 raises ValueError at the call, for a
\* synchronous and an asynchronous iterator alike, with no item taken from
\* the iterator and no generator made.
C12_BadSizeRaisesAtCall ==
    (fn = "as_chunks" /\ pc # "call" /\ args.max_size <= 0) =>
        /\ pc = "raised"
        /\ result = [exc |-> "ValueError"]
        /\ pos = 0 /\ yielded = <<>>

\* C12 witness: the call raised for max_size = 0 on a non-empty asynchronous
\* iterator.
C12_Witness ==
    /\ fn = "as_chunks" /\ pc = "raised"
    /\ args.max_size = 0 /\ args.is_async /\ args.iterator # <<>>
    /\ pos = 0


(* -------------------------------- find -------------------------------- *)

\* Elements of the sequences handed to find; 0 is a falsy element.
Elems == 0..2

\* Sequences handed to find.
Seqs == UNION {[1..k -> Elems] : k \in 0..MaxSeq}

\* What a predicate may return: None, 0 (falsy), 1 and 2 (truthy).
PredValues == {None, 0, 1, 2}

\* A test that takes only the value 1 (True) for a match.
TruthyIsOne(v) == v = 1

\* `if predicate(element)`: Python truth of the predicate's result.
Truthy(v) == v # None /\ v # 0

RECURSIVE find_loop(_, _, _, _)
\* find: the for loop from 0-based position i; applied lists the elements
\* the predicate has been called on so far.
find_loop(predicate, seq, i, applied) ==
    IF i < Len(seq)
    THEN LET element == seq[i + 1]
             called  == Append(applied, element)
         IN IF Truthy(predicate[element])
            THEN [ret |-> Some(element), applied |-> called]
            ELSE find_loop(predicate, seq, i + 1, called)
    ELSE [ret |-> Nothing, applied |-> applied]

\* find(predicate, seq)
find(predicate, seq) == find_loop(predicate, seq, 0, <<>>)

\* Before the call find(predicate, seq).
InitFind ==
    \E p \in [Elems -> PredValues], sq \in Seqs :
        /\ ListIdle
        /\ fn = "find"
        /\ args = [predicate |-> p, seq |-> sq]
        /\ pc = "call"
        /\ result = <<>>
        /\ GenIdle

\* find(predicate, seq) runs and returns.
FindCall ==
    /\ fn = "find" /\ pc = "call"
    /\ pc' = "returned"
    /\ result' = find(args.predicate, args.seq)
    /\ UNCHANGED <<fn, args>>
    /\ UNCHANGED genVars
    /\ UNCHANGED listVars

NextFind == FindCall

SpecFind == InitFind /\ [][NextFind]_vars

\* Positions of sq whose element the predicate p accepts.
Accepted(p, sq) == {i \in 1..Len(sq) : p[sq[i]] \in {1, 2}}

\* Least member of a non-empty set of positions.
First(S) == CHOOSE i \in S : \A j \in S : i <= j

\* C13: find returns the first element, in order, on which the predicate
\* is truthy, and None when there is none; the predicate has been called on
\* the elements up to the returned one and on none after it.
C13_FindFirstMatch ==
    (fn = "find" /\ pc = "returned") =>
        LET acc == Accepted(args.predicate, args.seq)
        IN IF acc = {}
           THEN /\ result.ret = Nothing
                /\ result.applied = args.seq
           ELSE /\ result.ret = Some(args.seq[First(acc)])
                /\ result.applied = SubSeq(args.seq, 1, First(acc))

\* C13 witness: find returned the second element; the predicate answered
\* None on the first, 2 on the second, and a later element it would also
\* accept was never reached.
C13_Witness ==
    /\ fn = "find" /\ pc = "returned"
    /\ Len(args.seq) = 3
    /\ args.predicate[args.seq[1]] = None
    /\ args.predicate[args.seq[2]] = 2
    /\ Truthy(args.predicate[args.seq[3]])
    /\ result.ret = Some(args.seq[2])
    /\ Len(result.applied) = 2

(* -------------------------------- get --------------------------------- *)

\* Attribute names of the objects searched.
AttrNames == {"a", "b"}

\* Attribute values.
AttrValues == 0..1

\* The objects searched: each has both attributes.
Objects == [AttrNames -> AttrValues]

\* Iterables handed to get.
Iterables == UNION {[1..k -> Objects] : k \in 0..MaxSeq}

\* **attrs: keyword arguments in call order, as <<name, value>> pairs with
\* distinct names.
AttrArgs ==
    {kw \in UNION {[1..k -> AttrNames \X AttrValues] : k \in 0..2} :
        \A i, j \in 1..Len(kw) : i # j => kw[i][1] # kw[j][1]}

\* A test that accepts an object meeting any one of the attributes.
AnyMatch(elem, converted) ==
    \E i \in 1..Len(converted) : elem[converted[i][1]] = converted[i][2]

\* `_all(pred(elem) == value for pred, value in converted)`
AllMatch(elem, converted) ==
    \A i \in 1..Len(converted) : elem[converted[i][1]] = converted[i][2]

RECURSIVE get_single_loop(_, _, _, _)
\* get, single-attribute path: `for elem in iterable: if pred(elem) == v`.
get_single_loop(iterable, k, v, i) ==
    IF i < Len(iterable)
    THEN IF iterable[i + 1][k] = v
         THEN Some(iterable[i + 1])
         ELSE get_single_loop(iterable, k, v, i + 1)
    ELSE Nothing

RECURSIVE get_general_loop(_, _, _)
\* get, general path: `for elem in iterable: if _all(...)`.
get_general_loop(iterable, converted, i) ==
    IF i < Len(iterable)
    THEN IF AllMatch(iterable[i + 1], converted)
         THEN Some(iterable[i + 1])
         ELSE get_general_loop(iterable, converted, i + 1)
    ELSE Nothing

\* get(iterable, **attrs)
utils_get(iterable, attrs) ==
    IF Len(attrs) = 1
    THEN get_single_loop(iterable, attrs[1][1], attrs[1][2], 0)
    ELSE get_general_loop(iterable, attrs, 0)

\* Before the call get(iterable, **attrs).
InitGet ==
    \E it \in Iterables, kw \in AttrArgs :
        /\ ListIdle
        /\ fn = "get"
        /\ args = [iterable |-> it, attrs |-> kw]
        /\ pc = "call"
        /\ result = <<>>
        /\ GenIdle

\* get(iterable, **attrs) runs and returns.
UtilsGetCall ==
    /\ fn = "get" /\ pc = "call"
    /\ pc' = "returned"
    /\ result' = utils_get(args.iterable, args.attrs)
    /\ UNCHANGED <<fn, args>>
    /\ UNCHANGED genVars
    /\ UNCHANGED listVars

NextGet == UtilsGetCall

SpecGet == InitGet /\ [][NextGet]_vars

\* Positions of it whose object has every attribute of kw at the value given.
Matching(it, kw) ==
    {i \in 1..Len(it) : \A j \in 1..Len(kw) : it[i][kw[j][1]] = kw[j][2]}

\* C14: get returns the first object, in order, whose attributes equal the
\* given values for every attribute passed, and None when no object meets
\* all of them; a call with one attribute returns what the general path
\* returns for that attribute.
C14_GetFirstMeetingAll ==
    (fn = "get" /\ pc = "returned") =>
        LET hit == Matching(args.iterable, args.attrs)
        IN /\ IF hit = {}
              THEN result = Nothing
              ELSE result = Some(args.iterable[First(hit)])
           /\ Len(args.attrs) = 1 =>
                 result = get_general_loop(args.iterable, args.attrs, 0)

\* C14 witness: two attributes were asked for; the first object meets only
\* one of them, the second only the other, and the third, meeting both,
\* was returned.
C14_Witness ==
    /\ fn = "get" /\ pc = "returned"
    /\ Len(args.attrs) = 2 /\ Len(args.iterable) = 3
    /\ args.iterable[1][args.attrs[1][1]] = args.attrs[1][2]
    /\ args.iterable[1][args.attrs[2][1]] # args.attrs[2][2]
    /\ args.iterable[2][args.attrs[1][1]] # args.attrs[1][2]
    /\ args.iterable[2][args.attrs[2][1]] = args.attrs[2][2]
    /\ result = Some(args.iterable[3])


(* ---------------------------- get_or_fetch ---------------------------- *)

\* What obj.get_<attr>(id) returns: the cached object or None.
GetOutcomes == {"obj", "None"}

\* What obj.fetch_<attr>(id), or obj._fetch_<attr>(id), does.  "absent":
\* obj has no such method, so getattr raises AttributeError before anything
\* is awaited.  Otherwise the call is awaited and returns the object or
\* None, or raises; "CancelledError" is what the await raises when the task
\* is cancelled while it is suspended there.
FetchOutcomes ==
    {"obj", "None", "HTTPException", "ValueError", "AttributeError",
     "absent", "CancelledError"}

\* The default argument: not passed (MISSING), None, or some other value.
Defaults == {"MISSING", "None", "default"}

Return(v) == [kind |-> "return", value |-> v]

Raise(e) == [kind |-> "raise", value |-> e]

\* The coroutine has finished with result r.
Finished(r) == [pc |-> "returned", result |-> r]

\* The coroutine is suspended at the await named w.
Suspended(w) == [pc |-> w, result |-> <<>>]

\* The `except AttributeError` handler up to its await, u being what
\* _fetch_ does: a missing _fetch_ raises AttributeError out of the handler.
enter_fallback(u) ==
    IF u = "absent" THEN Finished(Raise("AttributeError"))
    ELSE Suspended("await_fallback")

\* get_or_fetch from its call to its first await: g is what get_ returns.
start_fetch(g, f, u) ==
    IF g # "None" THEN Finished(Return(g))
    ELSE IF f = "absent" THEN enter_fallback(u)
    ELSE Suspended("await_fetch")

\* get_or_fetch from the end of `await fetch_(id)`, f being how it ended.
after_fetch(f, u, d) ==
    IF f \in {"obj", "None"} THEN Finished(Return(f))
    ELSE IF f = "AttributeError" THEN enter_fallback(u)
    ELSE IF f \in {"HTTPException", "ValueError"}
         THEN IF d # "MISSING" THEN Finished(Return(d))
              ELSE Finished(Raise(f))
    ELSE Finished(Raise(f))

\* get_or_fetch from the end of `await _fetch_(id)`, u being how it ended.
\* An exception raised inside the `except AttributeError` handler leaves the
\* try statement: the `except (HTTPException, ValueError)` clause beside it
\* does not see it.
after_fallback(u) ==
    IF u = "obj" THEN Finished(Return(u))
    ELSE IF u = "None" THEN Finished(Raise("ValueError"))
    ELSE Finished(Raise(u))

\* Before the call get_or_fetch(obj, attr, id, default=d).
InitFetch ==
    \E g \in GetOutcomes, f \in FetchOutcomes, u \in FetchOutcomes,
       d \in Defaults :
        /\ ListIdle
        /\ fn = "get_or_fetch"
        /\ args = [get |-> g, fetch |-> f, fallback |-> u, default |-> d]
        /\ pc = "call"
        /\ result = <<>>
        /\ GenIdle

\* The coroutine runs from its start to its first await, or to its end if
\* it awaits nothing.
GetOrFetchCall ==
    /\ fn = "get_or_fetch" /\ pc = "call"
    /\ LET r == start_fetch(args.get, args.fetch, args.fallback)
       IN pc' = r.pc /\ result' = r.result
    /\ UNCHANGED <<fn, args>>
    /\ UNCHANGED genVars
    /\ UNCHANGED listVars

\* `await fetch_(id)` ends and the coroutine runs on to its next await or
\* its end.  While it was suspended the event loop may have run other tasks.
FetchDone ==
    /\ fn = "get_or_fetch" /\ pc = "await_fetch"
    /\ LET r == after_fetch(args.fetch, args.fallback, args.default)
       IN pc' = r.pc /\ result' = r.result
    /\ UNCHANGED <<fn, args>>
    /\ UNCHANGED genVars
    /\ UNCHANGED listVars

\* `await _fetch_(id)` ends and the coroutine runs to its end.
FallbackDone ==
    /\ fn = "get_or_fetch" /\ pc = "await_fallback"
    /\ LET r == after_fallback(args.fallback)
       IN pc' = r.pc /\ result' = r.result
    /\ UNCHANGED <<fn, args>>
    /\ UNCHANGED genVars
    /\ UNCHANGED listVars

NextFetch == GetOrFetchCall \/ FetchDone \/ FallbackDone

SpecFetch == InitFetch /\ [][NextFetch]_vars

\* The cache has no object and the fetch path taken produces none: fetch_
\* raises HTTPException (NotFound) or ValueError, or there is no fetch_ and
\* _fetch_ returns None or raises one of the two.
NotFound(a) ==
    /\ a.get = "None"
    /\ \/ a.fetch \in {"HTTPException", "ValueError"}
       \/ /\ a.fetch \in {"absent", "AttributeError"}
          /\ a.fallback \in {"None", "HTTPException", "ValueError"}

\* C15: with an explicit default, an object that is not found makes
\* get_or_fetch return the default and raise nothing, on the fetch_ path
\* and on the _fetch_ fallback path.
C15_DefaultWhenNotFound ==
    (fn = "get_or_fetch" /\ pc = "returned"
     /\ args.default # "MISSING" /\ NotFound(args)) =>
        result = Return(args.default)


(* ---------------------------- filter_params --------------------------- *)

\* Parameter names.
Keys == {"a", "b", "c"}

\* Parameter values.
ParamValues == 1..2

\* None as the value of a keyword argument; no parameter name.
NoneKey == "None"

\* The params mappings: a value for each name of some set of names.
ParamMaps == UNION {[K -> ParamValues] : K \in SUBSET Keys}

\* **kwargs in call order, as <<old_param, new_param>> pairs; keyword names
\* are distinct.
KwArgs ==
    {kw \in UNION {[1..k -> Keys \X (Keys \cup {NoneKey})] : k \in 0..MaxKw} :
        \A i, j \in 1..Len(kw) : i # j => kw[i][1] # kw[j][1]}

\* params.pop(k): the mapping without the key k.
DictPop(params, k) == [x \in (DOMAIN params) \ {k} |-> params[x]]

\* params[k] = v
DictSet(params, k, v) ==
    [x \in (DOMAIN params) \cup {k} |-> IF x = k THEN v ELSE params[x]]

\* A loop body that copies the value to the new name and leaves the old.
filter_step_copy(params, old_param, new_param) ==
    IF old_param \in DOMAIN params
    THEN IF new_param = NoneKey
         THEN DictPop(params, old_param)
         ELSE DictSet(params, new_param, params[old_param])
    ELSE params

\* filter_params: the body of the loop for one (old_param, new_param).
filter_step(params, old_param, new_param) ==
    IF old_param \in DOMAIN params
    THEN IF new_param = NoneKey
         THEN DictPop(params, old_param)
         ELSE DictSet(DictPop(params, old_param), new_param, params[old_param])
    ELSE params

RECURSIVE filter_loop(_, _, _)
\* filter_params: `for old_param, new_param in kwargs.items()` from the
\* 0-based position i, on the mapping as the earlier pairs left it.
filter_loop(params, kwargs, i) ==
    IF i < Len(kwargs)
    THEN filter_loop(filter_step(params, kwargs[i + 1][1], kwargs[i + 1][2]),
                     kwargs, i + 1)
    ELSE params

\* filter_params(params, **kwargs): the mapping it leaves and returns.
filter_params(params, kwargs) == filter_loop(params, kwargs, 0)

\* Before the call filter_params(params, **kwargs).
InitFilter ==
    \E p \in ParamMaps, kw \in KwArgs :
        /\ ListIdle
        /\ fn = "filter_params"
        /\ args = [params |-> p, kwargs |-> kw]
        /\ pc = "call"
        /\ result = <<>>
        /\ GenIdle

\* filter_params runs and returns params.
FilterParamsCall ==
    /\ fn = "filter_params" /\ pc = "call"
    /\ pc' = "returned"
    /\ result' = filter_params(args.params, args.kwargs)
    /\ UNCHANGED <<fn, args>>
    /\ UNCHANGED genVars
    /\ UNCHANGED listVars

NextFilter == FilterParamsCall

SpecFilter == InitFilter /\ [][NextFilter]_vars

\* The pairs of kw whose old name is a key of p, in order.
PresentPairs(p, kw) == SelectSeq(kw, LAMBDA pair : pair[1] \in DOMAIN p)

\* Names that are the old or the new name of some pair of kw.
Touched(kw) ==
    {kw[i][1] : i \in 1..Len(kw)} \cup {kw[i][2] : i \in 1..Len(kw)}

\* Every pair with its old name in p has had that value moved to the new
\* name, or removed when the new name is None.
MovedOrRemoved(p, kw, final) ==
    \A i \in 1..Len(kw) :
        kw[i][1] \in DOMAIN p =>
            IF kw[i][2] = NoneKey
            THEN kw[i][1] \notin DOMAIN final
            ELSE /\ kw[i][2] \in DOMAIN final
                 /\ final[kw[i][2]] = p[kw[i][1]]
                 /\ kw[i][1] # kw[i][2] => kw[i][1] \notin DOMAIN final

\* Names outside the pairs are as they were: present with their value, or
\* absent.
OthersKept(p, kw, final) ==
    \A k \in Keys \ Touched(kw) :
        /\ k \in DOMAIN final <=> k \in DOMAIN p
        /\ k \in DOMAIN p => final[k] = p[k]

\* Pairs whose old name is no key of p change nothing: the result is the
\* one the other pairs alone give.
AbsentIgnored(p, kw, final) == final = filter_params(p, PresentPairs(p, kw))

\* No pair's new name is the old or the new name of another pair.
Independent(kw) ==
    \A i, j \in 1..Len(kw) :
        (i # j /\ kw[i][2] # NoneKey) =>
            (kw[i][2] # kw[j][1] /\ kw[i][2] # kw[j][2])

\* C16 as stated: for every kwargs, each pair with its old name in params
\* has moved or removed that value, names outside the pairs keep their
\* values, and pairs whose old name is absent from params have no effect.
C16_MoveOrRemoveEachPair ==
    (fn = "filter_params" /\ pc = "returned") =>
        /\ MovedOrRemoved(args.params, args.kwargs, result)
        /\ OthersKept(args.params, args.kwargs, result)
        /\ AbsentIgnored(args.params, args.kwargs, result)

\* C16 amended: names outside the pairs always keep their values; when no
\* pair's new name is the old or new name of another pair, each pair with
\* its old name in params has moved or removed that value and pairs whose
\* old name is absent have no effect.
C16_MoveOrRemoveIndependentPairs ==
    (fn = "filter_params" /\ pc = "returned") =>
        /\ OthersKept(args.params, args.kwargs, result)
        /\ Independent(args.kwargs) =>
              /\ MovedOrRemoved(args.params, args.kwargs, result)
              /\ AbsentIgnored(args.params, args.kwargs, result)

\* C16 witness: of two independent pairs the first renamed a parameter and
\* the second removed one, leaving the renamed value alone in the mapping.
C16_Witness ==
    /\ fn = "filter_params" /\ pc = "returned"
    /\ Len(args.kwargs) = 2 /\ Independent(args.kwargs)
    /\ DOMAIN args.params = {args.kwargs[1][1], args.kwargs[2][1]}
    /\ args.kwargs[1][2] \notin {NoneKey, args.kwargs[1][1]}
    /\ args.kwargs[2][2] = NoneKey
    /\ DOMAIN result = {args.kwargs[1][2]}
    /\ result[args.kwargs[1][2]] = args.params[args.kwargs[1][1]]


(* --------------------- the list: insertion point ---------------------- *)

\* C17: add(x) on an ascending list puts x at the leftmost position that
\* keeps the order: every item before it is strictly less, every item after
\* it is greater or equal, the list is one longer, and taking x out again
\* gives the list as it was.
C17_AddAtLeftmostPosition ==
    [][ (Constructed /\ op' = "add" /\ exc' = NoExc /\ IsAscending(data)) =>
          /\ Len(data') = Len(data) + 1
          /\ \E p \in 1..Len(data') :
                /\ data'[p] = arg'
                /\ \A j \in 1..(p - 1) : data'[j] < arg'
                /\ \A j \in (p + 1)..Len(data') : data'[j] >= arg'
                /\ data = SubSeq(data', 1, p - 1) \o SubSeq(data', p + 1, Len(data'))
      ]_vars

\* C17 witness: a value was added to an ascending list that held it twice,
\* between a smaller first item and a larger last item.
C17_Witness ==
    /\ op = "add" /\ exc = NoExc /\ IsAscending(data)
    /\ Len(data) = 5 /\ Count(data, arg) = 3
    /\ data[1] < arg /\ arg < data[5]

\* Some stored value is not found: has is false and get returns None for it.
SomeStoredValueLost(a) ==
    \E i \in 1..Len(a) : ~Has(a, a[i]) /\ Get(a, a[i]) = None

\* C18 as stated: construction with is_sorted=True from storable items that
\* are not in ascending order raises nothing and stores them in the order
\* given; in every such container some stored value is not found by has and
\* get; and an add on a list that is out of order leaves it out of order.
C18_UnsortedInputLosesValue ==
    /\ [](  (op = "new" /\ is_sorted /\ ~IsAscending(arg)
             /\ \A i \in 1..Len(arg) : arg[i] \in 0..MaxValue) =>
               /\ exc = NoExc
               /\ data = arg
               /\ SomeStoredValueLost(data) )
    /\ [][ (Constructed /\ ~IsAscending(data) /\ op' = "add") =>
             ~IsAscending(data') ]_vars

\* C18 amended: construction with is_sorted=True from storable items that
\* are not in ascending order raises nothing and stores them in the order
\* given; when some item is smaller than the first one, a stored value of
\* that list is not found by has and get (other such lists, <<0, 1, 0>> for
\* one, lose none); and an add on a list that is out of order leaves it out
\* of order.
C18_UnsortedInputStoredAsGiven ==
    /\ [](  (op = "new" /\ is_sorted /\ ~IsAscending(arg)
             /\ \A i \in 1..Len(arg) : arg[i] \in 0..MaxValue) =>
               /\ exc = NoExc
               /\ data = arg
               /\ (\E i \in 1..Len(arg) : arg[i] < arg[1]) =>
                     SomeStoredValueLost(data) )
    /\ [][ (Constructed /\ ~IsAscending(data) /\ op' = "add") =>
             ~IsAscending(data') ]_vars

\* C18 witness: a list constructed with is_sorted=True is out of order
\* after an add, and a value it stores is not found.
C18_Witness ==
    /\ is_sorted /\ op = "add" /\ exc = NoExc
    /\ ~IsAscending(data)
    /\ SomeStoredValueLost(data)

=============================================================================
